---- MODULE Spec2Model ----
(***************************************************************************)
(* Collective load-balancing round trip of MPI_Cpp.                        *)
(*                                                                         *)
(* Two programs are modelled, selected by the variable impl:               *)
(*   "Basic"    src/unnamed/part_000   (branch on rank, no barriers)       *)
(*   "Improved" src/MPI_Improved.cpp   (unified code, two MPI_Barrier)     *)
(*                                                                         *)
(* Every rank runs main(); a step of a rank is either the local code up to *)
(* and including the call of its next collective (Call...) or the return   *)
(* of the collective it is blocked in (Return...).  A collective returns   *)
(* at a rank as soon as that rank's part is complete (MPI 5.1: a           *)
(* collective may or may not synchronise): the root of a gather needs      *)
(* every contribution, a receiver of a scatter needs the root's call, a    *)
(* barrier needs every rank; a sender of a gather and the root of a        *)
(* scatter hand their data over and return within the calling step.        *)
(*                                                                         *)
(* An array element is <<value, rank, index>>: the int (or float) the code *)
(* moves, and the place (rank, index) of original_array it came from; the  *)
(* place is carried along only to state where an element originated.       *)
(***************************************************************************)
EXTENDS Integers, Sequences, FiniteSets, TLC

\* ---- bounds -------------------------------------------------------------
MaxRanks == 3          \* mpirun -np 1 .. MaxRanks
MaxElements == 2       \* num_elements is rand() % 10; here 0 .. MaxElements

\* the stream rand() % 181 yields, a short cycle: 30 and 150 have one sine
ThetaStream == <<30, 150, 90>>

\* values a read of the unassigned int total_elements may produce
Indeterminate == {-1, 1}

Impls == {"Basic", "Improved"}

VARIABLES
  impl,          \* which program runs
  total_ranks,   \* MPI_Comm_size
  pc,            \* pc[r]: index in Program(impl, r) of the rank's next collective
  status,        \* status[r]: "ready" | "waiting" | "done" | "aborted"
  mem,           \* mem[r]: the local variables of main() at rank r
  net,           \* net[phase][r]: what the collective `phase` holds from/for r
  calls          \* calls[r]: the collectives rank r has invoked, <<kind, root>>

vars == <<impl, total_ranks, pc, status, mem, net, calls>>

Ranks == 0 .. (total_ranks - 1)

\* ---- pure helpers -------------------------------------------------------

\* vector<int>(n): n value-initialised ints
IntZeros(n) == [i \in 1..n |-> 0]

\* vector<T>(n) of elements: value 0, no origin
NoElement == <<0, -1, -1>>
Zeros(n) == [i \in 1..n |-> NoElement]

\* std::accumulate(begin, end, 0)
RECURSIVE accumulate(_)
accumulate(s) == IF s = <<>> THEN 0 ELSE s[1] + accumulate(Tail(s))

\* displacements: push_back(0); for i < total_ranks - 1: push_back(d[i] + counts[i])
RECURSIVE DisplacementsLoop(_, _, _, _)
DisplacementsLoop(d, counts, i, P) ==
  IF i < P - 1
  THEN DisplacementsLoop(Append(d, d[i + 1] + counts[i + 1]), counts, i + 1, P)
  ELSE d

\* the loop adding the count of the next rank: push_back(d[i] + counts[i + 1])
RECURSIVE DisplacementsLoop_NextCount(_, _, _, _)
DisplacementsLoop_NextCount(d, counts, i, P) ==
  IF i < P - 1
  THEN DisplacementsLoop_NextCount(Append(d, d[i + 1] + counts[i + 2]), counts, i + 1, P)
  ELSE d

Displacements_NextCount(counts, P) == DisplacementsLoop_NextCount(<<0>>, counts, 0, P)

Displacements(counts, P) == DisplacementsLoop(<<0>>, counts, 0, P)

\* the loop with its bound off by one: for i <= remainder
RECURSIVE AddRemainder_OffByOne(_, _, _)
AddRemainder_OffByOne(arr, i, remainder) ==
  IF i <= remainder
  THEN AddRemainder_OffByOne([arr EXCEPT ![i + 1] = @ + 1], i + 1, remainder)
  ELSE arr

\* for i < remainder: array[i] += 1
RECURSIVE AddRemainder(_, _, _)
AddRemainder(arr, i, remainder) ==
  IF i < remainder
  THEN AddRemainder([arr EXCEPT ![i + 1] = @ + 1], i + 1, remainder)
  ELSE arr

\* the whole remainder handed to rank 0
Redistribution_AllToFirst(total, P) ==
  [i \in 1..P |-> IF i = 1 THEN (total \div P) + (total % P) ELSE total \div P]

\* the extra elements handed to the last ranks instead of the first
Redistribution_LastRanks(total, P) ==
  [i \in 1..P |-> IF P - i < total % P THEN (total \div P) + 1 ELSE total \div P]

\* the extra elements start after rank 0 when rank 0 generated nothing
Redistribution_ByOrigin(total, P) ==
  LET start == IF mem[0].num_elements = 0 THEN 1 ELSE 0
  IN [i \in 1..P |->
        IF (i - 1 - start + P) % P < total % P THEN (total \div P) + 1 ELSE total \div P]

\* base_avg = total / ranks; fill; remainder = total % ranks; first remainder += 1
Redistribution(total, P) ==
  LET base_avg == total \div P
      remainder == total % P
  IN AddRemainder([i \in 1..P |-> base_avg], 0, remainder)

\* sin(theta * atan(1) / 45.0) stored in a float, in thousandths
SinMilli(theta) ==
  CASE theta = 0 -> 0
    [] theta = 30 -> 500
    [] theta = 60 -> 866
    [] theta = 90 -> 1000
    [] theta = 120 -> 866
    [] theta = 150 -> 500
    [] theta = 180 -> 0
    [] OTHER -> 0

\* results_array[i] = sin(task_array[i] * atan(1) / 45.0)
Transform(e) == <<SinMilli(e[1]), e[2], e[3]>>

\* the task loop starting at i = 1: the first element is left as declared
PerformTask_FromSecond(results, task) ==
  [i \in 1..Len(results) |->
     IF 1 < i /\ i <= Len(task) THEN Transform(task[i]) ELSE results[i]]

\* for i < task_array.size(): results_array[i] = transform(task_array[i])
PerformTask(results, task) ==
  [i \in 1..Len(results) |-> IF i <= Len(task) THEN Transform(task[i]) ELSE results[i]]

\* the displacements ignored: every message lands at the start of the buffer
GathervRecv_NoDispls(buf, msgs, counts, displs, P) ==
  [j \in 1..Len(buf) |->
     IF \E i \in 1..P : j <= counts[i]
     THEN LET i == CHOOSE i \in 1..P :
                     /\ j <= counts[i]
                     /\ \A h \in 1..P : j <= counts[h] => h <= i
          IN msgs[i][j]
     ELSE buf[j]]

\* Root side of MPI_Gatherv: rank i's message lands at displs[i], counts[i] long
GathervRecv(buf, msgs, counts, displs, P) ==
  [j \in 1..Len(buf) |->
     IF \E i \in 1..P : displs[i] < j /\ j <= displs[i] + counts[i]
     THEN LET i == CHOOSE i \in 1..P : displs[i] < j /\ j <= displs[i] + counts[i]
          IN msgs[i][j - displs[i]]
     ELSE buf[j]]

\* the displacements ignored: every rank is sent the start of the buffer
ScattervSend_FromStart(buf, counts, displs, i) ==
  SubSeq(buf, 1, counts[i])

\* Root side of MPI_Scatterv: rank i is sent counts[i] elements from displs[i]
ScattervSend(buf, counts, displs, i) ==
  SubSeq(buf, displs[i] + 1, displs[i] + counts[i])

\* Receiving side of a scatter: the chunk lands at the start of recvbuf
ScatterRecv(recvbuf, chunk) ==
  [k \in 1..Len(recvbuf) |-> IF k <= Len(chunk) THEN chunk[k] ELSE recvbuf[k]]

\* MPI_Gatherv / MPI_Gather send side: sendcount elements of sendbuf
SendBuf(sendbuf, sendcount) == SubSeq(sendbuf, 1, sendcount)

\* ---- the programs -------------------------------------------------------

Phases == {"Gather", "Gatherv1", "Barrier1", "Scatter", "Barrier2",
           "Scatterv1", "Gatherv2", "Scatterv2"}

\* the else branch of Basic calling MPI_Scatter before MPI_Gatherv
Program_Reordered(im, r) ==
  IF im = "Improved"
  THEN <<"Gather", "Gatherv1", "Barrier1", "Scatter", "Barrier2",
         "Scatterv1", "Gatherv2", "Scatterv2">>
  ELSE IF r = 0
  THEN <<"Gather", "Gatherv1", "Scatter", "Scatterv1", "Gatherv2", "Scatterv2">>
  ELSE <<"Gather", "Scatter", "Gatherv1", "Scatterv1", "Gatherv2", "Scatterv2">>

\* the collectives of Improved, the same code at every rank
UnifiedProgram ==
  <<"Gather", "Gatherv1", "Barrier1", "Scatter", "Barrier2",
    "Scatterv1", "Gatherv2", "Scatterv2">>

\* the collectives of Basic in its if (my_rank == 0) branch
CoordinatorBranch ==
  <<"Gather", "Gatherv1", "Scatter", "Scatterv1", "Gatherv2", "Scatterv2">>

\* the collectives of Basic in its else branch
PeerBranch ==
  <<"Gather", "Gatherv1", "Scatter", "Scatterv1", "Gatherv2", "Scatterv2">>

\* The collectives of main() in source order, per program and branch
Program(im, r) ==
  IF im = "Improved" THEN UnifiedProgram
  ELSE IF r = 0 THEN CoordinatorBranch
  ELSE PeerBranch

\* kind of MPI call behind a phase
Kind(ph) ==
  CASE ph = "Gather" -> "MPI_Gather"
    [] ph \in {"Gatherv1", "Gatherv2"} -> "MPI_Gatherv"
    [] ph = "Scatter" -> "MPI_Scatter"
    [] ph \in {"Scatterv1", "Scatterv2"} -> "MPI_Scatterv"
    [] OTHER -> "MPI_Barrier"

\* srand(seed), then n draws of theta = rand() % 181
Generate(seed, n) ==
  [k \in 1..n |-> ThetaStream[((seed + k) % Len(ThetaStream)) + 1]]

\* main() up to the first collective: num_elements, original_array; in Basic
\* final_results_array(num_elements) is declared here as well
InitialMemory(im, r, batch) ==
  [num_elements |-> Len(batch),
   original_array |-> [k \in 1..Len(batch) |-> <<batch[k], r, k>>],
   total_elements |-> 0,
   total_elements_assigned |-> FALSE,
   number_of_elements_array |-> <<>>,
   displacements_array_2 |-> <<>>,
   combined_task_array |-> <<>>,
   redistributed_number_of_elements_array |-> <<>>,
   num_received_tasks |-> 0,
   displacements_array_3 |-> <<>>,
   task_array |-> <<>>,
   results_array |-> <<>>,
   combined_results_array |-> <<>>,
   final_results_array |-> IF im = "Basic" THEN Zeros(Len(batch)) ELSE <<>>]

Init ==
  /\ impl \in Impls
  /\ total_ranks \in 1..MaxRanks
  /\ \E n \in [Ranks -> 0..MaxElements] :
       mem = [r \in Ranks |-> InitialMemory(impl, r, Generate(r, n[r]))]
  /\ pc = [r \in Ranks |-> 1]
  /\ status = [r \in Ranks |-> "ready"]
  /\ net = [ph \in Phases |-> [r \in Ranks |-> <<>>]]
  /\ calls = [r \in Ranks |-> <<>>]

\* ---- stepping a rank ----------------------------------------------------

Ready(r, ph) ==
  /\ status[r] = "ready"
  /\ Program(impl, r)[pc[r]] = ph

Waiting(r, ph) ==
  /\ status[r] = "waiting"
  /\ Program(impl, r)[pc[r]] = ph

\* does the call of phase ph wait at rank r for other ranks
Blocks(ph, r) ==
  CASE Kind(ph) \in {"MPI_Gather", "MPI_Gatherv"} -> r = 0
    [] Kind(ph) \in {"MPI_Scatter", "MPI_Scatterv"} -> r # 0
    [] OTHER -> TRUE

\* the status after the collective at pc[r] returned; MPI_Finalize follows the last
AfterReturn(r) ==
  IF pc[r] = Len(Program(impl, r)) THEN "done" ELSE "ready"

\* the rank calls the collective with the given root
Invoke(r, ph, root) ==
  /\ status' = [status EXCEPT ![r] = IF Blocks(ph, r) THEN "waiting" ELSE AfterReturn(r)]
  /\ pc' = [pc EXCEPT ![r] = IF Blocks(ph, r) THEN @ ELSE @ + 1]
  /\ calls' = [calls EXCEPT ![r] = Append(@, <<Kind(ph), root>>)]
  /\ UNCHANGED <<impl, total_ranks>>

\* the rank leaves the collective it waited in
Complete(r) ==
  /\ pc' = [pc EXCEPT ![r] = @ + 1]
  /\ status' = [status EXCEPT ![r] = AfterReturn(r)]
  /\ UNCHANGED <<impl, total_ranks, calls>>

\* an exception leaves main(): std::terminate, the rank is gone
Terminate(r) ==
  /\ status' = [status EXCEPT ![r] = "aborted"]
  /\ UNCHANGED <<impl, total_ranks, pc, calls, net>>

\* every rank has called the collective
AllCalled(ph) == \A r \in Ranks : net[ph][r] # <<>>

\* the root has sent rank r its part of the scatter
RootCalled(ph, r) == net[ph][r] # <<>>

\* ---- phase 1: MPI_Gather of num_elements --------------------------------
\* Improved 77-78; Basic 83-87 (rank 0), 216 (other ranks)

CallGather(r) ==
  /\ Ready(r, "Gather")
  /\ mem' = [mem EXCEPT ![r].number_of_elements_array =
               IF impl = "Improved" \/ r = 0 THEN IntZeros(total_ranks) ELSE @]
  /\ net' = [net EXCEPT !["Gather"][r] = <<mem[r].num_elements>>]
  /\ Invoke(r, "Gather", 0)

ReturnGather(r) ==
  /\ Waiting(r, "Gather")
  /\ AllCalled("Gather")
  /\ mem' = [mem EXCEPT ![r].number_of_elements_array =
               [i \in 1..total_ranks |-> net["Gather"][i - 1][1]]]
  /\ UNCHANGED net
  /\ Complete(r)

\* ---- phase 2: MPI_Gatherv of original_array -----------------------------
\* Improved 75-114; Basic 90-115 (rank 0), 217 (other ranks)

\* the value a read of total_elements yields: g where it was never assigned
ReadTotalElements(m, g) ==
  IF m.total_elements_assigned THEN m.total_elements ELSE g

\* rank 0: total_elements = accumulate(...); displacements_array_2
SumAndDisplace(m, r) ==
  IF r = 0
  THEN [m EXCEPT !.total_elements = accumulate(m.number_of_elements_array),
                 !.total_elements_assigned = TRUE,
                 !.displacements_array_2 =
                    Displacements(m.number_of_elements_array, total_ranks)]
  ELSE m

\* does rank r execute the declarations of the group-wide buffers
DeclaresBuffers(im, r) == im = "Improved" \/ r = 0

CallGatherv1(r) ==
  /\ Ready(r, "Gatherv1")
  /\ \E g \in Indeterminate :
       LET m1 == SumAndDisplace(mem[r], r)
           size == ReadTotalElements(m1, g)
       IN IF DeclaresBuffers(impl, r) /\ size < 0
          THEN \* vector(size_type(-1)) throws std::length_error
               /\ mem' = [mem EXCEPT ![r] = m1]
               /\ Terminate(r)
          ELSE /\ mem' = [mem EXCEPT ![r] =
                            IF DeclaresBuffers(impl, r)
                            THEN [m1 EXCEPT !.combined_task_array = Zeros(size)]
                            ELSE m1]
               /\ net' = [net EXCEPT !["Gatherv1"][r] =
                            <<SendBuf(mem[r].original_array, mem[r].num_elements)>>]
               /\ Invoke(r, "Gatherv1", 0)

\* the coordinator leaving the gather with the messages that have arrived
ReturnGatherv1_NoWait(r) ==
  /\ Waiting(r, "Gatherv1")
  /\ mem' = [mem EXCEPT ![r].combined_task_array =
               GathervRecv(@, [i \in 1..total_ranks |->
                                 IF net["Gatherv1"][i - 1] # <<>>
                                 THEN net["Gatherv1"][i - 1][1]
                                 ELSE SubSeq(@, mem[r].displacements_array_2[i] + 1,
                                             mem[r].displacements_array_2[i]
                                               + mem[r].number_of_elements_array[i])],
                           mem[r].number_of_elements_array,
                           mem[r].displacements_array_2, total_ranks)]
  /\ UNCHANGED net
  /\ Complete(r)

ReturnGatherv1(r) ==
  /\ Waiting(r, "Gatherv1")
  /\ AllCalled("Gatherv1")
  /\ mem' = [mem EXCEPT ![r].combined_task_array =
               GathervRecv(@, [i \in 1..total_ranks |-> net["Gatherv1"][i - 1][1]],
                           mem[r].number_of_elements_array,
                           mem[r].displacements_array_2, total_ranks)]
  /\ UNCHANGED net
  /\ Complete(r)

\* ---- MPI_Barrier after the first gather (Improved only) -----------------
\* Improved 115-117

CallBarrier1(r) ==
  /\ Ready(r, "Barrier1")
  /\ mem' = [mem EXCEPT ![r].redistributed_number_of_elements_array =
               IntZeros(total_ranks)]
  /\ net' = [net EXCEPT !["Barrier1"][r] = <<TRUE>>]
  /\ Invoke(r, "Barrier1", -1)

ReturnBarrier1(r) ==
  /\ Waiting(r, "Barrier1")
  /\ AllCalled("Barrier1")
  /\ UNCHANGED <<mem, net>>
  /\ Complete(r)

\* ---- phase 3a: balancing and MPI_Scatter of the balanced counts ---------
\* Improved 119-158; Basic 136-148 (rank 0), 219 (other ranks)

CallScatter(r) ==
  /\ Ready(r, "Scatter")
  /\ LET plan == Redistribution(mem[r].total_elements, total_ranks)
     IN IF r = 0
        THEN /\ mem' = [mem EXCEPT ![r].redistributed_number_of_elements_array = plan,
                                   ![r].num_received_tasks = plan[r + 1]]
             /\ net' = [net EXCEPT !["Scatter"] = [i \in Ranks |-> <<plan[i + 1]>>]]
        ELSE UNCHANGED <<mem, net>>
  /\ Invoke(r, "Scatter", 0)

\* every rank handed the entry of rank 0 (a broadcast of the first count)
ReturnScatter_FirstEntry(r) ==
  /\ Waiting(r, "Scatter")
  /\ RootCalled("Scatter", r)
  /\ mem' = [mem EXCEPT ![r].num_received_tasks = net["Scatter"][0][1]]
  /\ UNCHANGED net
  /\ Complete(r)

ReturnScatter(r) ==
  /\ Waiting(r, "Scatter")
  /\ RootCalled("Scatter", r)
  /\ mem' = [mem EXCEPT ![r].num_received_tasks = net["Scatter"][r][1]]
  /\ UNCHANGED net
  /\ Complete(r)

\* ---- MPI_Barrier before the redistribution (Improved only) --------------
\* Improved 162-185; the declarations are Basic 160-172 (rank 0), 222 (others)

\* the receive count of rank r: rank 0 of Basic reads its entry of the plan
ReceiveCount(m, r) ==
  IF impl = "Basic" /\ r = 0
  THEN m.redistributed_number_of_elements_array[r + 1]
  ELSE m.num_received_tasks

\* task_array(count); rank 0: displacements_array_3
DeclareTaskArray(m, r) ==
  LET m1 == [m EXCEPT !.task_array = Zeros(ReceiveCount(m, r))]
  IN IF r = 0
     THEN [m1 EXCEPT !.displacements_array_3 =
             Displacements(m.redistributed_number_of_elements_array, total_ranks)]
     ELSE m1

CallBarrier2(r) ==
  /\ Ready(r, "Barrier2")
  /\ mem' = [mem EXCEPT ![r] = DeclareTaskArray(@, r)]
  /\ net' = [net EXCEPT !["Barrier2"][r] = <<TRUE>>]
  /\ Invoke(r, "Barrier2", -1)

ReturnBarrier2(r) ==
  /\ Waiting(r, "Barrier2")
  /\ AllCalled("Barrier2")
  /\ UNCHANGED <<mem, net>>
  /\ Complete(r)

\* ---- phase 3b: MPI_Scatterv of combined_task_array ----------------------
\* Improved 187-188; Basic 160-177 (rank 0), 222-223 (other ranks)

CallScatterv1(r) ==
  /\ Ready(r, "Scatterv1")
  /\ LET m1 == IF impl = "Basic" THEN DeclareTaskArray(mem[r], r) ELSE mem[r]
         chunk(i) == ScattervSend(m1.combined_task_array,
                                  m1.redistributed_number_of_elements_array,
                                  m1.displacements_array_3, i + 1)
     IN IF r = 0
        THEN /\ mem' = [mem EXCEPT ![r] =
                          [m1 EXCEPT !.task_array = ScatterRecv(@, chunk(r))]]
             /\ net' = [net EXCEPT !["Scatterv1"] = [i \in Ranks |-> <<chunk(i)>>]]
        ELSE /\ mem' = [mem EXCEPT ![r] = m1]
             /\ UNCHANGED net
  /\ Invoke(r, "Scatterv1", 0)

\* the chunk received into original_array, reused as the task buffer
ReturnScatterv1_IntoOriginal(r) ==
  /\ Waiting(r, "Scatterv1")
  /\ RootCalled("Scatterv1", r)
  /\ mem' = [mem EXCEPT ![r].original_array = net["Scatterv1"][r][1],
                        ![r].task_array = ScatterRecv(@, net["Scatterv1"][r][1])]
  /\ UNCHANGED net
  /\ Complete(r)

ReturnScatterv1(r) ==
  /\ Waiting(r, "Scatterv1")
  /\ RootCalled("Scatterv1", r)
  /\ mem' = [mem EXCEPT ![r].task_array = ScatterRecv(@, net["Scatterv1"][r][1])]
  /\ UNCHANGED net
  /\ Complete(r)

\* ---- phase 4a: the task, MPI_Gatherv of results_array -------------------
\* Improved 204-215; Basic 188-198 (rank 0), 233-240 (other ranks)

\* the coordinator turning its balanced counts into running sums in place
\* before the results are gathered
CallGatherv2_InPlace(r) ==
  /\ Ready(r, "Gatherv2")
  /\ \E g \in Indeterminate :
       LET m0 == IF r = 0
                 THEN [mem[r] EXCEPT !.redistributed_number_of_elements_array =
                         [i \in 1..Len(@) |-> @[i] + (IF i = 1 THEN 0 ELSE @[i - 1])]]
                 ELSE mem[r]
           m1 == [m0 EXCEPT !.results_array =
                    PerformTask(Zeros(m0.num_received_tasks), m0.task_array)]
           size == ReadTotalElements(m1, g)
       IN IF DeclaresBuffers(impl, r) /\ size < 0
          THEN /\ mem' = [mem EXCEPT ![r] = m1]
               /\ Terminate(r)
          ELSE /\ mem' = [mem EXCEPT ![r] =
                            IF DeclaresBuffers(impl, r)
                            THEN [m1 EXCEPT !.combined_results_array = Zeros(size)]
                            ELSE m1]
               /\ net' = [net EXCEPT !["Gatherv2"][r] =
                            <<SendBuf(m1.results_array, m1.num_received_tasks)>>]
               /\ Invoke(r, "Gatherv2", 0)

CallGatherv2(r) ==
  /\ Ready(r, "Gatherv2")
  /\ \E g \in Indeterminate :
       LET m1 == [mem[r] EXCEPT !.results_array =
                    PerformTask(Zeros(ReceiveCount(mem[r], r)), mem[r].task_array)]
           size == ReadTotalElements(m1, g)
       IN IF DeclaresBuffers(impl, r) /\ size < 0
          THEN \* vector(size_type(-1)) throws std::length_error
               /\ mem' = [mem EXCEPT ![r] = m1]
               /\ Terminate(r)
          ELSE /\ mem' = [mem EXCEPT ![r] =
                            IF DeclaresBuffers(impl, r)
                            THEN [m1 EXCEPT !.combined_results_array = Zeros(size)]
                            ELSE m1]
               /\ net' = [net EXCEPT !["Gatherv2"][r] =
                            <<SendBuf(m1.results_array, m1.num_received_tasks)>>]
               /\ Invoke(r, "Gatherv2", 0)

ReturnGatherv2(r) ==
  /\ Waiting(r, "Gatherv2")
  /\ AllCalled("Gatherv2")
  /\ mem' = [mem EXCEPT ![r].combined_results_array =
               GathervRecv(@, [i \in 1..total_ranks |-> net["Gatherv2"][i - 1][1]],
                           mem[r].redistributed_number_of_elements_array,
                           mem[r].displacements_array_3, total_ranks)]
  /\ UNCHANGED net
  /\ Complete(r)

\* ---- phase 4b: MPI_Scatterv of combined_results_array, MPI_Finalize -----
\* Improved 229-243; Basic 78, 208-209 (rank 0), 243 (other ranks), 254

\* the results sent back by the balanced plan instead of the origin spans
CallScatterv2_ByPlan(r) ==
  /\ Ready(r, "Scatterv2")
  /\ LET m1 == IF impl = "Improved"
               THEN [mem[r] EXCEPT !.final_results_array = Zeros(mem[r].num_elements)]
               ELSE mem[r]
         chunk(i) == ScattervSend(m1.combined_results_array,
                                  m1.redistributed_number_of_elements_array,
                                  m1.displacements_array_3, i + 1)
     IN IF r = 0
        THEN /\ mem' = [mem EXCEPT ![r] =
                          [m1 EXCEPT !.final_results_array = ScatterRecv(@, chunk(r))]]
             /\ net' = [net EXCEPT !["Scatterv2"] = [i \in Ranks |-> <<chunk(i)>>]]
        ELSE /\ mem' = [mem EXCEPT ![r] = m1]
             /\ UNCHANGED net
  /\ Invoke(r, "Scatterv2", 0)

\* final_results_array sized by total_elements instead of num_elements
CallScatterv2_SizedByTotal(r) ==
  /\ Ready(r, "Scatterv2")
  /\ \E g \in Indeterminate :
       LET size == ReadTotalElements(mem[r], g)
           m1 == [mem[r] EXCEPT !.final_results_array = Zeros(size)]
           chunk(i) == ScattervSend(m1.combined_results_array,
                                    m1.number_of_elements_array,
                                    m1.displacements_array_2, i + 1)
       IN IF size < 0
          THEN UNCHANGED mem /\ Terminate(r)
          ELSE /\ IF r = 0
                  THEN /\ mem' = [mem EXCEPT ![r] =
                                    [m1 EXCEPT !.final_results_array = ScatterRecv(@, chunk(r))]]
                       /\ net' = [net EXCEPT !["Scatterv2"] = [i \in Ranks |-> <<chunk(i)>>]]
                  ELSE /\ mem' = [mem EXCEPT ![r] = m1]
                       /\ UNCHANGED net
               /\ Invoke(r, "Scatterv2", 0)

CallScatterv2(r) ==
  /\ Ready(r, "Scatterv2")
  /\ LET m1 == IF impl = "Improved"
               THEN [mem[r] EXCEPT !.final_results_array = Zeros(mem[r].num_elements)]
               ELSE mem[r]
         chunk(i) == ScattervSend(m1.combined_results_array,
                                  m1.number_of_elements_array,
                                  m1.displacements_array_2, i + 1)
     IN IF r = 0
        THEN /\ mem' = [mem EXCEPT ![r] =
                          [m1 EXCEPT !.final_results_array = ScatterRecv(@, chunk(r))]]
             /\ net' = [net EXCEPT !["Scatterv2"] = [i \in Ranks |-> <<chunk(i)>>]]
        ELSE /\ mem' = [mem EXCEPT ![r] = m1]
             /\ UNCHANGED net
  /\ Invoke(r, "Scatterv2", 0)

ReturnScatterv2(r) ==
  /\ Waiting(r, "Scatterv2")
  /\ RootCalled("Scatterv2", r)
  /\ mem' = [mem EXCEPT ![r].final_results_array = ScatterRecv(@, net["Scatterv2"][r][1])]
  /\ UNCHANGED net
  /\ Complete(r)

Next ==
  \E r \in Ranks :
    \/ CallGather(r)
    \/ ReturnGather(r)
    \/ CallGatherv1(r)
    \/ ReturnGatherv1(r)
    \/ CallBarrier1(r)
    \/ ReturnBarrier1(r)
    \/ CallScatter(r)
    \/ ReturnScatter(r)
    \/ CallBarrier2(r)
    \/ ReturnBarrier2(r)
    \/ CallScatterv1(r)
    \/ ReturnScatterv1(r)
    \/ CallGatherv2(r)
    \/ ReturnGatherv2(r)
    \/ CallScatterv2(r)
    \/ ReturnScatterv2(r)

Spec == Init /\ [][Next]_vars

\* ======================= properties ======================================

\* position of every phase in every program, tabulated once (f @@ <<>> is
\* the function f, with its values computed); a phase that a program does
\* not have lies beyond its end
PhaseIndexOf ==
  [im \in Impls, r \in 0..(MaxRanks - 1), ph \in Phases |->
     IF \E i \in 1..Len(Program(im, r)) : Program(im, r)[i] = ph
     THEN CHOOSE i \in 1..Len(Program(im, r)) : Program(im, r)[i] = ph
     ELSE Len(Program(im, r)) + 2] @@ <<>>

\* position of phase ph in the program of rank r
PhaseIndex(r, ph) == PhaseIndexOf[impl, r, ph]

\* rank r has called the collective of phase ph
Invoked(r, ph) ==
  \/ pc[r] > PhaseIndex(r, ph)
  \/ pc[r] = PhaseIndex(r, ph) /\ status[r] = "waiting"

\* s[1] + ... + s[n]
RECURSIVE Sigma(_, _)
Sigma(s, n) == IF n = 0 THEN 0 ELSE s[n] + Sigma(s, n - 1)

\* the number of elements the ranks hold together
LocalTotal == Sigma([i \in 1..total_ranks |-> mem[i - 1].num_elements], total_ranks)

Smaller(a, b) == IF a < b THEN a ELSE b

\* the plan at the coordinator
Plan == mem[0].redistributed_number_of_elements_array

\* the coordinator has computed the balanced counts / their displacements
PlanComputed == Invoked(0, "Scatter")
OffsetsComputed == Invoked(0, "Scatterv1")

\* the elements of original_array at rank r, as floats after the task
Expected(r) ==
  [k \in 1..mem[r].num_elements |-> <<SinMilli(mem[r].original_array[k][1]), r, k>>]

\* C1: a rank that reached the end holds, at every position k of
\* final_results_array, the transform of the element that it generated itself
\* at position k of original_array (same origin, not only an equal value).
C1_RoundTrip ==
  \A r \in Ranks :
    status[r] = "done" => mem[r].final_results_array = Expected(r)

\* C1 witness: three ranks are done, elements were worked on at a rank other
\* than their owner, and a rank got back two elements of equal value in order.
C1_Witness ==
  /\ total_ranks = 3
  /\ \A r \in Ranks : status[r] = "done"
  /\ \E r \in Ranks : \E k \in 1..Len(mem[r].task_array) : mem[r].task_array[k][2] # r
  /\ \E r \in Ranks :
       /\ Len(mem[r].final_results_array) = 2
       /\ mem[r].final_results_array[1][1] = mem[r].final_results_array[2][1]
       /\ mem[r].final_results_array[1][3] = 1

\* C2: the balanced counts at the coordinator differ by at most one.
C2_BalanceBound ==
  PlanComputed =>
    \A i, j \in 1..total_ranks : Plan[i] - Plan[j] <= 1

\* C2 witness: a plan for three ranks with both sizes in it.
C2_Witness ==
  /\ PlanComputed
  /\ total_ranks = 3
  /\ \E i, j \in 1..total_ranks : Plan[i] - Plan[j] = 1

\* C3: total_elements at the coordinator is the sum of the ranks' local
\* counts, and the balanced counts sum to the same number.
C3_Conservation ==
  LET N == LocalTotal
  IN  /\ mem[0].total_elements_assigned => mem[0].total_elements = N
      /\ PlanComputed => Sigma(Plan, total_ranks) = N

\* C3 witness: a plan over unequal local counts, five elements on three ranks.
C3_Witness ==
  /\ PlanComputed
  /\ total_ranks = 3
  /\ LocalTotal = 5
  /\ mem[0].num_elements = 1

\* C4: rank i gets N div P elements, plus one if i < N mod P.
C4_BalancingFormula ==
  PlanComputed =>
    LET N == LocalTotal
        q == N \div total_ranks
        rem == N % total_ranks
    IN  /\ Len(Plan) = total_ranks
        /\ \A i \in Ranks : Plan[i + 1] = q + (IF i < rem THEN 1 ELSE 0)

\* C4 witness: n = [2, 0, 2] gives [2, 1, 1].
C4_Witness ==
  /\ PlanComputed
  /\ total_ranks = 3
  /\ mem[0].num_elements = 2 /\ mem[1].num_elements = 0 /\ mem[2].num_elements = 2
  /\ Plan = <<2, 1, 1>>

\* the balanced counts and offsets as a function of N and P alone
PlanOf(N, P) ==
  [counts |-> [i \in 1..P |-> (N \div P) + (IF i - 1 < N % P THEN 1 ELSE 0)],
   offsets |-> [i \in 1..P |-> (i - 1) * (N \div P) + Smaller(i - 1, N % P)]]

\* C5: the balanced counts and the balanced offsets are determined by N and
\* P: two runs that agree on N and P agree on both, whatever the local counts.
C5_Determinism ==
  OffsetsComputed =>
    [counts |-> Plan, offsets |-> mem[0].displacements_array_3]
      = PlanOf(LocalTotal, total_ranks)

\* C5 witness: N = 4 on three ranks held as [0, 2, 2]; the plan is that of
\* [2, 0, 2] and of every other split of 4.
C5_Witness ==
  /\ OffsetsComputed
  /\ total_ranks = 3
  /\ mem[0].num_elements = 0 /\ mem[1].num_elements = 2 /\ mem[2].num_elements = 2
  /\ Plan = <<2, 1, 1>>
  /\ mem[0].displacements_array_3 = <<0, 2, 3>>

\* the six data collectives in protocol order, all rooted at rank 0
SixCollectives ==
  << <<"MPI_Gather", 0>>, <<"MPI_Gatherv", 0>>, <<"MPI_Scatter", 0>>,
     <<"MPI_Scatterv", 0>>, <<"MPI_Gatherv", 0>>, <<"MPI_Scatterv", 0>> >>

\* the calls of a rank without its barriers
DataCalls(r) == SelectSeq(calls[r], LAMBDA c : c[1] # "MPI_Barrier")

IsPrefix(s, t) == Len(s) <= Len(t) /\ s = SubSeq(t, 1, Len(s))

\* C6: a rank with no elements never fails, sends an empty span, and when it
\* is done it has called all six collectives and holds an empty final array.
C6_ZeroLengthPeer ==
  \A r \in Ranks :
    mem[r].num_elements = 0 =>
      /\ status[r] # "aborted"
      /\ Invoked(r, "Gatherv1") => net["Gatherv1"][r] = << <<>> >>
      /\ status[r] = "done" =>
           /\ DataCalls(r) = SixCollectives
           /\ mem[r].final_results_array = <<>>

\* C7: the calls of every rank are an initial part of one fixed sequence:
\* without the barriers, of the six collectives rooted at 0; and the k-th
\* call of any two ranks is the same call, so ranks that meet in a collective
\* are in the same one; a rank that is done has made all six.
C7_SamePhaseSequence ==
  /\ \A r \in Ranks : IsPrefix(DataCalls(r), SixCollectives)
  /\ \A r, s \in Ranks :
       r < s => IsPrefix(calls[r], calls[s]) \/ IsPrefix(calls[s], calls[r])
  /\ \A r \in Ranks : status[r] = "done" => DataCalls(r) = SixCollectives

\* C7 witness: three ranks of the unified program are done and the
\* coordinator's calls include both barriers.
C7_Witness ==
  /\ impl = "Improved"
  /\ total_ranks = 3
  /\ \A r \in Ranks : status[r] = "done"
  /\ Len(calls[0]) = 8

\* the collective a rank that terminated never called
Missed(q) == Program(impl, q)[pc[q]]

C9_CoordinatorOnly ==
  \A r \in Ranks :
    r # 0 =>
      /\ mem[r].combined_task_array = <<>>
      /\ mem[r].redistributed_number_of_elements_array = <<>>
      /\ mem[r].displacements_array_3 = <<>>
      /\ mem[r].combined_results_array = <<>>

\* the counts handed to every variable-length exchange add up to the size of
\* the coordinator's buffer, and every message is as long as its receiver
\* declared (no reachable exchange has a size mismatch)
ExchangeSizesMatch ==
  /\ Invoked(0, "Gatherv1") =>
       /\ Sigma(mem[0].number_of_elements_array, total_ranks)
            = Len(mem[0].combined_task_array)
       /\ \A r \in Ranks :
            net["Gatherv1"][r] # <<>> =>
              Len(net["Gatherv1"][r][1]) = mem[0].number_of_elements_array[r + 1]
  /\ Invoked(0, "Scatterv1") =>
       /\ Sigma(Plan, total_ranks) = Len(mem[0].combined_task_array)
       /\ \A r \in Ranks :
            Invoked(r, "Scatterv1") => Len(mem[r].task_array) = Plan[r + 1]
  /\ Invoked(0, "Gatherv2") =>
       /\ Sigma(Plan, total_ranks) = Len(mem[0].combined_results_array)
       /\ \A r \in Ranks :
            net["Gatherv2"][r] # <<>> => Len(net["Gatherv2"][r][1]) = Plan[r + 1]
  /\ Invoked(0, "Scatterv2") =>
       \A r \in Ranks :
         Invoked(r, "Scatterv2") =>
           Len(mem[r].final_results_array) = mem[0].number_of_elements_array[r + 1]

\* C11: no step of any rank changes the contents or the length of that
\* rank's original_array, nor its num_elements; the protocol only reads them.
C11_InputFrame ==
  [][\A r \in Ranks :
       /\ mem'[r].original_array = mem[r].original_array
       /\ mem'[r].num_elements = mem[r].num_elements]_vars

\* C11 witness: three ranks ran the whole protocol over a two-element
\* original_array at rank 2, which still holds what was generated.
C11_Witness ==
  /\ total_ranks = 3
  /\ \A r \in Ranks : status[r] = "done"
  /\ mem[2].original_array = << <<30, 2, 1>>, <<150, 2, 2>> >>
  /\ mem[2].task_array # <<>>

\* the count vector and the origin offsets at the coordinator
Counts == mem[0].number_of_elements_array
Offsets == mem[0].displacements_array_2

\* the coordinator has built the origin offsets
OriginComputed == Invoked(0, "Gatherv1")

\* C12: the origin offsets are the exclusive prefix sum of the count vector
\* (offset of rank 0 is 0, offset of rank i is the sum of the counts below i),
\* there are exactly P of them, and the spans [offset, offset + count) cover
\* [0, N) with every position in exactly one span.
C12_OriginSpans ==
  OriginComputed =>
    LET N == LocalTotal
    IN  /\ Len(Offsets) = total_ranks
        /\ \A i \in 1..total_ranks : Offsets[i] = Sigma(Counts, i - 1)
        /\ \A j \in 0..(N - 1) :
             Cardinality({i \in 1..total_ranks :
                            Offsets[i] <= j /\ j < Offsets[i] + Counts[i]}) = 1
        /\ \A i \in 1..total_ranks : Offsets[i] + Counts[i] <= N

\* C12 witness: counts [1, 0, 2] give offsets [0, 1, 1]; the empty span of
\* rank 1 sits between the other two.
C12_Witness ==
  /\ OriginComputed
  /\ total_ranks = 3
  /\ Counts = <<1, 0, 2>>
  /\ Offsets = <<0, 1, 1>>

\* rank r has returned from the collective of phase ph
Returned(r, ph) == pc[r] > PhaseIndex(r, ph)

\* the number of elements generated at the ranks below r
ElementsBelow(r) == Sigma([i \in 1..total_ranks |-> mem[i - 1].num_elements], r)

\* C13: once the first MPI_Gatherv has returned at the coordinator, the
\* combined task array is the concatenation of the ranks' original arrays in
\* ascending rank order: element k of rank i sits at offset_i + k.
C13_Consolidation ==
  Returned(0, "Gatherv1") =>
    /\ Len(mem[0].combined_task_array) = LocalTotal
    /\ \A i \in Ranks :
         LET below == ElementsBelow(i)
         IN  \A k \in 1..mem[i].num_elements :
               mem[0].combined_task_array[below + k] = mem[i].original_array[k]

\* C13 witness: three ranks with 1, 2 and 2 elements; the buffer starts with
\* the element of rank 0 and ends with the second element of rank 2.
C13_Witness ==
  /\ Returned(0, "Gatherv1")
  /\ total_ranks = 3
  /\ mem[0].num_elements = 1 /\ mem[1].num_elements = 2 /\ mem[2].num_elements = 2
  /\ mem[0].combined_task_array[1] = mem[0].original_array[1]
  /\ mem[0].combined_task_array[5] = mem[2].original_array[2]

\* the task arrays of ranks 0 .. n-1, one after the other
RECURSIVE ConcatTasks(_)
ConcatTasks(n) == IF n = 0 THEN <<>> ELSE ConcatTasks(n - 1) \o mem[n - 1].task_array

\* C14: a rank that has returned from the first MPI_Scatterv holds a task
\* array of its balanced count whose k-th element is the element of the
\* combined task array at its balanced offset + k; when all ranks have
\* returned, the task arrays in rank order make up the combined task array.
C14_TaskChunk ==
  /\ \A i \in Ranks :
       Returned(i, "Scatterv1") =>
         /\ Len(mem[i].task_array) = Plan[i + 1]
         /\ \A k \in 1..Plan[i + 1] :
              mem[i].task_array[k]
                = mem[0].combined_task_array[mem[0].displacements_array_3[i + 1] + k]
  /\ (\A i \in Ranks : Returned(i, "Scatterv1")) =>
       ConcatTasks(total_ranks) = mem[0].combined_task_array

\* C14 witness: five elements held as [1, 2, 2] are dealt out 2, 2, 1: the
\* coordinator works on an element of rank 1, rank 1 on an element of rank 2.
C14_Witness ==
  /\ total_ranks = 3
  /\ \A i \in Ranks : Returned(i, "Scatterv1")
  /\ mem[0].num_elements = 1 /\ mem[1].num_elements = 2 /\ mem[2].num_elements = 2
  /\ Plan = <<2, 2, 1>>
  /\ mem[0].task_array[2] = mem[1].original_array[1]
  /\ mem[1].task_array[2] = mem[2].original_array[1]

\* the float the task makes of element e, at the same origin
SineOf(e) == <<SinMilli(e[1]), e[2], e[3]>>

\* C15: a rank that has called the second MPI_Gatherv holds a results array
\* as long as its task array with results[k] the transform of task[k]; once
\* that gather has returned at the coordinator, the combined results array
\* has N elements and element j is the transform of element j of the
\* combined task array.
C15_ResultConsolidation ==
  /\ \A i \in Ranks :
       Invoked(i, "Gatherv2") =>
         /\ Len(mem[i].results_array) = Len(mem[i].task_array)
         /\ \A k \in 1..Len(mem[i].task_array) :
              mem[i].results_array[k] = SineOf(mem[i].task_array[k])
  /\ Returned(0, "Gatherv2") =>
       /\ Len(mem[0].combined_results_array) = LocalTotal
       /\ \A j \in 1..LocalTotal :
            mem[0].combined_results_array[j] = SineOf(mem[0].combined_task_array[j])

\* C15 witness: the results of six elements on three ranks are gathered; the
\* last one is the sine of 150 degrees, computed at rank 2.
C15_Witness ==
  /\ Returned(0, "Gatherv2")
  /\ total_ranks = 3
  /\ LocalTotal = 6
  /\ mem[0].combined_results_array[6] = <<500, 2, 2>>
  /\ mem[2].results_array[2] = <<500, 2, 2>>

\* C16: once computed, the balanced counts and the balanced offsets at the
\* coordinator are changed by no step, so the first MPI_Scatterv and the
\* second MPI_Gatherv use the same plan; likewise the count vector and the
\* origin offsets stay as the first MPI_Gatherv used them up to the final
\* MPI_Scatterv.
C16_PlanReuse ==
  [][/\ PlanComputed => Plan' = Plan
     /\ OffsetsComputed =>
          mem'[0].displacements_array_3 = mem[0].displacements_array_3
     /\ OriginComputed => Counts' = Counts /\ Offsets' = Offsets]_vars

\* C16 witness: the coordinator has sent the final results of counts
\* [2, 1, 2] with the plan [2, 2, 1] / [0, 2, 4] it used for both exchanges.
C16_Witness ==
  /\ total_ranks = 3
  /\ Invoked(0, "Scatterv2")
  /\ Counts = <<2, 1, 2>> /\ Offsets = <<0, 2, 3>>
  /\ Plan = <<2, 2, 1>> /\ mem[0].displacements_array_3 = <<0, 2, 4>>
  /\ \A r \in Ranks : Len(net["Scatterv1"][r][1]) = Len(net["Gatherv2"][r][1])

\* C17: a rank sizes its task array and enters the first MPI_Scatterv only
\* after MPI_Scatter has returned there; its num_received_tasks, the length
\* of its task array and the number of results it sends to the second
\* MPI_Gatherv all equal the coordinator's balanced count for that rank; at
\* the coordinator num_received_tasks is the plan's entry for rank 0.
C17_ScalarBeforeVariable ==
  /\ \A r \in Ranks :
       /\ (mem[r].task_array # <<>> \/ Invoked(r, "Scatterv1")) =>
            /\ Returned(r, "Scatter")
            /\ mem[r].num_received_tasks = Plan[r + 1]
            /\ Len(mem[r].task_array) = Plan[r + 1]
       /\ Invoked(r, "Gatherv2") => Len(net["Gatherv2"][r][1]) = Plan[r + 1]
  /\ Returned(0, "Scatter") => mem[0].num_received_tasks = Plan[1]

\* C17 witness: four elements, plan [2, 1, 1]: rank 2, which generated
\* nothing, has learnt its count 1, sized its task array and sent one result.
C17_Witness ==
  /\ total_ranks = 3
  /\ Plan = <<2, 1, 1>>
  /\ mem[2].num_elements = 0
  /\ mem[2].num_received_tasks = 1
  /\ Len(mem[2].task_array) = 1
  /\ Invoked(2, "Gatherv2")
  /\ Len(net["Gatherv2"][2][1]) = 1

\* every position of buf holds an element some rank wrote
AllWritten(buf) == \A j \in 1..Len(buf) : buf[j][2] # -1

\* the scatter of phase ph has read the coordinator's buffer
ScatterHasRead(ph) == \E r \in Ranks : net[ph][r] # <<>>

\* C18: in every interleaving, when the first MPI_Scatterv reads the combined
\* task array the first MPI_Gatherv has returned and has written all N
\* positions, and when the final MPI_Scatterv reads the combined results
\* array the second MPI_Gatherv has returned and has written all N
\* positions; while a gather is writing a buffer nothing has read it.
C18_PhaseBarrier ==
  /\ ScatterHasRead("Scatterv1") =>
       /\ Returned(0, "Gatherv1")
       /\ Len(mem[0].combined_task_array) = LocalTotal
       /\ AllWritten(mem[0].combined_task_array)
       /\ \A r \in Ranks : AllWritten(net["Scatterv1"][r][1])
  /\ ScatterHasRead("Scatterv2") =>
       /\ Returned(0, "Gatherv2")
       /\ Len(mem[0].combined_results_array) = LocalTotal
       /\ AllWritten(mem[0].combined_results_array)
       /\ \A r \in Ranks : AllWritten(net["Scatterv2"][r][1])

\* C18 witness: the coordinator has read the three gathered results for the
\* final scatter while ranks 1 and 2 have not yet called it.
C18_Witness ==
  /\ total_ranks = 3
  /\ LocalTotal = 3
  /\ ScatterHasRead("Scatterv2")
  /\ Ready(1, "Scatterv2") /\ Ready(2, "Scatterv2")
  /\ AllWritten(mem[0].combined_results_array)

\* a step of the program taken by rank r
RankMoves(r) ==
  /\ r \in Ranks
  /\ Next
  /\ <<pc[r], status[r]>>' # <<pc[r], status[r]>>

\* every rank is a process of its own that keeps running: a rank that can
\* take a step eventually takes one
FairSpec ==
  /\ Init
  /\ [][Next]_vars
  /\ \A r \in 0..(MaxRanks - 1) : WF_vars(RankMoves(r))

\* C19: when every rank runs the protocol and keeps being scheduled, every
\* rank eventually reaches the end with its final results array filled.
C19_Termination ==
  <>(\A r \in Ranks :
       /\ status[r] = "done"
       /\ Len(mem[r].final_results_array) = mem[r].num_elements)

\* the original arrays of ranks 0 .. n-1, one after the other
RECURSIVE ConcatOriginals(_)
ConcatOriginals(n) ==
  IF n = 0 THEN <<>> ELSE ConcatOriginals(n - 1) \o mem[n - 1].original_array

\* what a run over the ranks' original arrays leaves at rank r, as a function
\* of the original arrays alone: the same for both programs
OutcomeOf(r) ==
  LET all == ConcatOriginals(total_ranks)
      plan == PlanOf(LocalTotal, total_ranks)
  IN [task |-> SubSeq(all, plan.offsets[r + 1] + 1,
                      plan.offsets[r + 1] + plan.counts[r + 1]),
      final |-> Expected(r),
      counts |-> IF r = 0 THEN [i \in 1..total_ranks |-> mem[i - 1].num_elements]
                 ELSE <<>>,
      buffer |-> IF r = 0 THEN all ELSE <<>>,
      plan |-> IF r = 0 THEN plan.counts ELSE <<>>,
      results |-> IF r = 0 THEN [j \in 1..Len(all) |-> SineOf(all[j])] ELSE <<>>]

\* what the run has left at rank r; the group-wide arrays count at rank 0 only
Outcome(r) ==
  [task |-> mem[r].task_array,
   final |-> mem[r].final_results_array,
   counts |-> IF r = 0 THEN mem[r].number_of_elements_array ELSE <<>>,
   buffer |-> IF r = 0 THEN mem[r].combined_task_array ELSE <<>>,
   plan |-> IF r = 0 THEN mem[r].redistributed_number_of_elements_array ELSE <<>>,
   results |-> IF r = 0 THEN mem[r].combined_results_array ELSE <<>>]

\* C20: a run of either program over the same original arrays ends with the
\* same count vector, combined task array, plan, task arrays, combined
\* results and final results: when no rank can take a further step, every
\* rank holds the outcome determined by the original arrays.
C20_SameOutcome ==
  ~(ENABLED Next) => \A r \in Ranks : Outcome(r) = OutcomeOf(r)

\* rank r has evaluated the declaration of combined_task_array (line 111):
\* it has called the first MPI_Gatherv, or the declaration threw
ReachedAllocation(r) == Invoked(r, "Gatherv1") \/ status[r] = "aborted"

\* C21: in the unified program every rank, coordinator or not, that has
\* reached the declaration of combined_task_array (and so, later, that of
\* combined_results_array) has assigned total_elements before.
C21_AssignedBeforeRead ==
  impl = "Improved" =>
    \A r \in Ranks : ReachedAllocation(r) => mem[r].total_elements_assigned
====
